---- MODULE Spec2Model ----
(***************************************************************************)
(* FileSyncer.py: one-way periodic mirroring of a source folder into a     *)
(* replica folder.  The module models the file system the program works    *)
(* on, sync_folders (scan, deletion walk, copy/skip loop, summary,         *)
(* re-scheduling) and the prompt / sched.scheduler loop of __main__.       *)
(***************************************************************************)
EXTENDS Integers, Sequences, FiniteSets, TLC

(***************************************************************************)
(* Bounds of the model.                                                    *)
(***************************************************************************)
\* calls of sync_folders explored in one behaviour
MaxRuns == 2

\* the backup intervals, in minutes, the operator may enter
Minutes == {1}

\* the seconds the file operations of one run may take
Durations == {1}

(***************************************************************************)
(* Paths.  A path is a sequence of names; <<>> is the directory the        *)
(* program was started in.                                                 *)
(***************************************************************************)
source_root == <<"s">>
replica_root == <<"r">>

\* the relative paths that may hold something in either tree
RelPaths == { <<"a">>, <<"d">>, <<"l">>, <<"d", "a">>, <<"d", "l">> }

AbsPaths ==
    {source_root, replica_root, <<"l">>}
        \cup {source_root \o q : q \in RelPaths}
        \cup {replica_root \o q : q \in RelPaths}

\* the places the operator may give for the log file
LogPlaces == { <<"l">>, <<"r", "l">>, <<"r", "d", "l">>, <<"s", "l">> }

\* the order in which a directory listing returns its entries
NameOrder == <<"a", "d", "l", "r", "s">>

join(root, rel) == root \o rel

relpath(p, root) == SubSeq(p, Len(root) + 1, Len(p))

dirname(p) == SubSeq(p, 1, Len(p) - 1)

(***************************************************************************)
(* File system entries.  A file's content is a sequence of lines.          *)
(***************************************************************************)
None == [kind |-> "none", content |-> <<>>]

Dir == [kind |-> "dir", content |-> <<>>]

File(c) == [kind |-> "file", content |-> c]

\* a line of a data file
Data(v) == [stamped |-> FALSE, ts |-> 0, msg |-> "data", path |-> <<>>, n |-> v]

X == File(<<Data(1)>>)

Y == File(<<Data(2)>>)

VARIABLES
    fs,             \* the file system: AbsPaths -> entry
    pc,             \* where the program is
    caller,         \* who called the running sync_folders: "main" or "sched"
    active,         \* invocations of sync_folders in progress
    log_file,       \* validated_params[2]
    backup_interval,\* validated_params[3], in seconds
    queue,          \* sync_scheduler.queue: the pending events
    source_files,   \* the list built by the scan of the current run
    counters,       \* file_copied_counter, file_removed_counter, file_identical_counter
    clock,          \* time.time(), in seconds
    err,            \* the exception that ended the last run, or "none"
    hist            \* bookkeeping for the properties (never read by the program)

vars == <<fs, pc, caller, active, log_file, backup_interval, queue,
          source_files, counters, clock, err, hist>>

Kind(f, p) == IF p \in DOMAIN f THEN f[p].kind ELSE "none"

Content(f, p) == IF p \in DOMAIN f THEN f[p].content ELSE <<>>

RECURSIVE isdir(_, _)
\* os.path.isdir
isdir(f, p) ==
    IF p = <<>> THEN TRUE
    ELSE Kind(f, p) = "dir" /\ isdir(f, dirname(p))

\* os.path.exists
exists(f, p) ==
    IF p = <<>> THEN TRUE
    ELSE Kind(f, p) # "none" /\ isdir(f, dirname(p))

\* os.path.isfile
isfile(f, p) == Kind(f, p) = "file" /\ isdir(f, dirname(p))

\* os.scandir, as os.walk uses it: the names in a directory, in listing order
scandir(f, top) ==
    SelectSeq(NameOrder, LAMBDA n : Kind(f, join(top, <<n>>)) # "none")

\* os.listdir(p) is non-empty
HasEntries(f, p) == Len(scandir(f, p)) > 0

(***************************************************************************)
(* The state a run threads through its file operations: the file system,   *)
(* the three counters and the exception raised so far ("none" while the    *)
(* run is alive).  Once err is set every later operation is skipped: the   *)
(* code has no try/except inside sync_folders.                             *)
(***************************************************************************)
Raise(st, e) == [st EXCEPT !.err = e]

RECURSIVE lookup_error(_, _)
\* the OSError the kernel gives when resolving p, "none" when p resolves
lookup_error(f, p) ==
    IF p = <<>> THEN "none"
    ELSE LET e == lookup_error(f, dirname(p))
         IN  IF e # "none" THEN e
             ELSE IF dirname(p) # <<>> /\ Kind(f, dirname(p)) = "file"
                  THEN "NotADirectoryError"
             ELSE IF Kind(f, p) = "none" THEN "FileNotFoundError"
             ELSE "none"

\* a line written with the time.strftime prefix
Line(msg, path) ==
    [stamped |-> TRUE, ts |-> clock, msg |-> msg, path |-> path, n |-> 0]

\* a line written without the prefix (the summary lines)
SummaryLine(msg, n) ==
    [stamped |-> FALSE, ts |-> 0, msg |-> msg, path |-> <<>>, n |-> n]

\* with open(log_file, "a") as f: f.write(line)
append_log(st, line) ==
    IF st.err # "none" THEN st
    ELSE IF lookup_error(st.fs, dirname(log_file)) # "none"
         THEN Raise(st, lookup_error(st.fs, dirname(log_file)))
    ELSE IF ~isdir(st.fs, dirname(log_file)) THEN Raise(st, "NotADirectoryError")
    ELSE IF Kind(st.fs, log_file) = "dir" THEN Raise(st, "IsADirectoryError")
    ELSE [st EXCEPT !.fs[log_file] = File(Content(st.fs, log_file) \o <<line>>)]

\* os.remove(p); the operation fails with PermissionError on the path `bad`
os_remove(st, p, bad) ==
    IF st.err # "none" THEN st
    ELSE IF p = bad THEN Raise(st, "PermissionError")
    ELSE IF lookup_error(st.fs, p) # "none" THEN Raise(st, lookup_error(st.fs, p))
    ELSE IF Kind(st.fs, p) = "dir" THEN Raise(st, "IsADirectoryError")
    ELSE [st EXCEPT !.fs[p] = None]

\* os.rmdir(p)
os_rmdir(st, p, bad) ==
    IF st.err # "none" THEN st
    ELSE IF p = bad THEN Raise(st, "PermissionError")
    ELSE IF lookup_error(st.fs, p) # "none" THEN Raise(st, lookup_error(st.fs, p))
    ELSE IF Kind(st.fs, p) # "dir" THEN Raise(st, "NotADirectoryError")
    ELSE IF HasEntries(st.fs, p) THEN Raise(st, "OSError")
    ELSE [st EXCEPT !.fs[p] = None]

\* os.mkdir(p)
os_mkdir(st, p) ==
    IF st.err # "none" THEN st
    ELSE IF lookup_error(st.fs, dirname(p)) # "none"
         THEN Raise(st, lookup_error(st.fs, dirname(p)))
    ELSE IF ~isdir(st.fs, dirname(p)) THEN Raise(st, "NotADirectoryError")
    ELSE IF Kind(st.fs, p) # "none" THEN Raise(st, "FileExistsError")
    ELSE [st EXCEPT !.fs[p] = Dir]

RECURSIVE os_makedirs(_, _)
\* os.makedirs(p): the missing ancestors first, then p itself
os_makedirs(st, p) ==
    IF st.err # "none" THEN st
    ELSE LET head == dirname(p)
             s1 == IF head # <<>> /\ ~exists(st.fs, head)
                   THEN os_makedirs(st, head) ELSE st
         IN  os_mkdir(s1, p)

\* the exception get_md5(p) raises, "none" when the file can be read
md5_error(f, p, bad) ==
    IF p = bad THEN "PermissionError"
    ELSE IF lookup_error(f, p) # "none" THEN lookup_error(f, p)
    ELSE IF Kind(f, p) = "dir" THEN "IsADirectoryError"
    ELSE "none"

\* get_md5(p): the digest of the file's bytes.  MD5 is taken to be free of
\* collisions on the contents of the model: a digest stands for one content.
get_md5(f, p) == <<"md5", Content(f, p)>>

\* a copy in the wrong direction
copy2_swapped(st, src, dst, bad) == [st EXCEPT !.fs[src] = st.fs[dst]]

\* shutil.copy2(src, dst): content and metadata of src written to dst
copy2(st, src, dst, bad) ==
    IF st.err # "none" THEN st
    ELSE IF src = bad \/ dst = bad THEN Raise(st, "PermissionError")
    ELSE IF lookup_error(st.fs, src) # "none" THEN Raise(st, lookup_error(st.fs, src))
    ELSE IF Kind(st.fs, src) = "dir" THEN Raise(st, "IsADirectoryError")
    ELSE IF lookup_error(st.fs, dirname(dst)) # "none"
         THEN Raise(st, lookup_error(st.fs, dirname(dst)))
    ELSE IF ~isdir(st.fs, dirname(dst)) THEN Raise(st, "NotADirectoryError")
    ELSE IF Kind(st.fs, dst) = "dir" THEN Raise(st, "IsADirectoryError")
    ELSE [st EXCEPT !.fs[dst] = st.fs[src]]

(***************************************************************************)
(* sync_folders, lines 26-30: the scan of the source folder.               *)
(***************************************************************************)
IsDirName(f, top, n) == Kind(f, join(top, <<n>>)) = "dir"

\* the (dirs, files) split os.walk makes of a listing
walk_dirs(f, top) == SelectSeq(scandir(f, top), LAMBDA n : IsDirName(f, top, n))

walk_files(f, top) == SelectSeq(scandir(f, top), LAMBDA n : ~IsDirName(f, top, n))

RECURSIVE scan_source(_, _)
RECURSIVE scan_subdirs(_, _, _, _)
\* os.walk(top), top-down: the files of top, then those of each subdirectory
scan_source(f, top) ==
    LET files == walk_files(f, top)
    IN  [i \in 1..Len(files) |-> join(top, <<files[i]>>)]
            \o scan_subdirs(f, top, walk_dirs(f, top), 1)

scan_subdirs(f, top, dirs, i) ==
    IF i > Len(dirs) THEN <<>>
    ELSE scan_source(f, join(top, <<dirs[i]>>)) \o scan_subdirs(f, top, dirs, i + 1)

(***************************************************************************)
(* sync_folders, lines 33-50: the deletion walk over the replica folder,   *)
(* bottom-up.  os.walk lists a directory before it descends into it and    *)
(* yields the listing after its subdirectories were yielded.               *)
(***************************************************************************)
\* lines 35-42: one name of `files`
remove_stale_file(st, root, name, bad) ==
    LET replica_file == join(root, <<name>>)
        source_file == join(source_root, relpath(replica_file, replica_root))
    IN  IF st.err # "none" THEN st
        ELSE IF ~exists(st.fs, source_file)
             THEN LET s1 == os_remove(st, replica_file, bad)
                      s2 == IF s1.err = "none"
                            THEN [s1 EXCEPT !.removed = @ + 1] ELSE s1
                  IN  append_log(s2, Line("removed", replica_file))
        ELSE st

\* a walk that leaves the directories alone
keep_stale_dir(st, root, name, bad) == st

\* lines 44-50: one name of `dirs`
remove_stale_dir(st, root, name, bad) ==
    LET replica_dir == join(root, <<name>>)
        source_dir == join(source_root, relpath(replica_dir, replica_root))
    IN  IF st.err # "none" THEN st
        ELSE IF ~exists(st.fs, source_dir)
             THEN append_log(os_rmdir(st, replica_dir, bad), Line("removed", replica_dir))
        ELSE st

RECURSIVE remove_files(_, _, _, _, _)
remove_files(st, root, files, i, bad) ==
    IF i > Len(files) THEN st
    ELSE remove_files(remove_stale_file(st, root, files[i], bad), root, files, i + 1, bad)

RECURSIVE remove_dirs(_, _, _, _, _)
remove_dirs(st, root, dirs, i, bad) ==
    IF i > Len(dirs) THEN st
    ELSE remove_dirs(remove_stale_dir(st, root, dirs[i], bad), root, dirs, i + 1, bad)

RECURSIVE walk_remove(_, _, _)
RECURSIVE walk_remove_subdirs(_, _, _, _, _)
\* lines 33-50 for the subtree at top
walk_remove(st, top, bad) ==
    LET dirs == walk_dirs(st.fs, top)
        files == walk_files(st.fs, top)
        below == walk_remove_subdirs(st, top, dirs, 1, bad)
    IN  remove_dirs(remove_files(below, top, files, 1, bad), top, dirs, 1, bad)

walk_remove_subdirs(st, top, dirs, i, bad) ==
    IF i > Len(dirs) THEN st
    ELSE walk_remove_subdirs(walk_remove(st, join(top, <<dirs[i]>>), bad),
                             top, dirs, i + 1, bad)

(***************************************************************************)
(* sync_folders, lines 53-78: the copy/skip loop over source_files.        *)
(***************************************************************************)
\* a comparison that never finds two files alike
never_same_md5(f, source_file, replica_file) == FALSE

\* line 66, second operand: get_md5(source_file) == get_md5(replica_file)
same_md5(f, source_file, replica_file) ==
    get_md5(f, source_file) = get_md5(f, replica_file)

\* a skip that is counted and not reported
skip_silently(st, source_file) == [st EXCEPT !.identical = @ + 1]

\* lines 67-71
skip_file(st, source_file) ==
    append_log([st EXCEPT !.identical = @ + 1], Line("identical", source_file))

\* lines 73-78
copy_file(st, source_file, replica_file, bad) ==
    LET s1 == copy2(st, source_file, replica_file, bad)
        s2 == IF s1.err = "none" THEN [s1 EXCEPT !.copied = @ + 1] ELSE s1
    IN  append_log(s2, Line("copied", source_file))

\* lines 55-78: one source file
sync_file(st, source_file, bad) ==
    LET rel_path == relpath(source_file, source_root)
        replica_file == join(replica_root, rel_path)
        replica_dir == dirname(replica_file)
        s1 == IF ~exists(st.fs, replica_dir) THEN os_makedirs(st, replica_dir) ELSE st
    IN  IF st.err # "none" THEN st
        ELSE IF s1.err # "none" THEN s1
        ELSE IF exists(s1.fs, replica_file)
             THEN IF md5_error(s1.fs, source_file, bad) # "none"
                  THEN Raise(s1, md5_error(s1.fs, source_file, bad))
                  ELSE IF md5_error(s1.fs, replica_file, bad) # "none"
                  THEN Raise(s1, md5_error(s1.fs, replica_file, bad))
                  ELSE IF same_md5(s1.fs, source_file, replica_file)
                  THEN skip_file(s1, source_file)
                  ELSE copy_file(s1, source_file, replica_file, bad)
        ELSE copy_file(s1, source_file, replica_file, bad)

RECURSIVE sync_files(_, _, _, _)
sync_files(st, files, i, bad) ==
    IF i > Len(files) THEN st
    ELSE sync_files(sync_file(st, files[i], bad), files, i + 1, bad)

\* lines 83-86: the three summary lines
write_summary(st) ==
    append_log(append_log(append_log(st,
        SummaryLine("Files copied", st.copied)),
        SummaryLine("Files removed", st.removed)),
        SummaryLine("Files unaltered", st.identical))

(***************************************************************************)
(* The program: the prompt loop of __main__, sync_folders as a sequence of *)
(* steps, and sync_scheduler.run().                                        *)
(*   pc = "prompt"   at input(), line 153                                  *)
(*        "scan"     sync_folders entered, before line 22                  *)
(*        "delete"   before the deletion walk, line 33                     *)
(*        "copy"     before the copy/skip loop, line 53                    *)
(*        "summary"  before the summary, line 80                           *)
(*        "enter"    before sync_scheduler.enter, line 89                  *)
(*        "wait"     inside sync_scheduler.run(), no action executing      *)
(*        "crashed"  the interpreter ended with an uncaught exception      *)
(***************************************************************************)
InRun == pc \in {"scan", "delete", "copy", "summary", "enter"}

\* the state of the running sync_folders, as its file operations thread it
RunState ==
    [fs |-> fs, copied |-> counters.copied, removed |-> counters.removed,
     identical |-> counters.identical, err |-> "none"]

CountersOf(st) ==
    [copied |-> st.copied, removed |-> st.removed, identical |-> st.identical]

ZeroCounters == [copied |-> 0, removed |-> 0, identical |-> 0]

\* a run that keeps the counters of the run before it
stale_counters == counters

\* lines 22-24: the counters a run starts with
fresh_counters == ZeroCounters

Init ==
    /\ \E sa \in {None, X}, sd \in {None, X, Dir}, sda \in {None, X},
          ra \in {None, X, Y}, rd \in {None, X, Dir}, rda \in {None, X, Y} :
          /\ sa # None \/ sd # None
          /\ sd # Dir => sda = None
          /\ rd # Dir => rda = None
          /\ fs = [p \in AbsPaths |->
                     CASE p \in {source_root, replica_root} -> Dir
                       [] p = <<"s", "a">> -> sa
                       [] p = <<"s", "d">> -> sd
                       [] p = <<"s", "d", "a">> -> sda
                       [] p = <<"r", "a">> -> ra
                       [] p = <<"r", "d">> -> rd
                       [] p = <<"r", "d", "a">> -> rda
                       [] OTHER -> None]
    /\ pc = "prompt"
    /\ caller = "main"
    /\ active = 0
    /\ log_file = <<"l">>
    /\ backup_interval = 60
    /\ queue = <<>>
    /\ source_files = <<>>
    /\ counters = ZeroCounters
    /\ clock = 0
    /\ err = "none"
    /\ hist = [nruns |-> 0, started_at |-> 0,
               run_start |-> 0, run_end |-> 0, clean_runs |-> 0, fs0 |-> fs,
               interrupted |-> "none"]

\* validate_input, lines 95-144, with the operator answering "y": the source
\* folder is a non-empty directory, the replica folder a directory, the log
\* path (a name ending in .txt) kept as given, wherever it lies, the interval
\* given in minutes and passed on in seconds
validate_input(place, minutes) ==
    IF isdir(fs, source_root) /\ HasEntries(fs, source_root) /\ isdir(fs, replica_root)
    THEN <<source_root, replica_root, place, minutes * 60>>
    ELSE <<>>

\* lines 153-159: parameters entered, validated, sync_folders called
Start(place, minutes) ==
    /\ pc = "prompt"
    /\ hist.nruns < MaxRuns
    /\ validate_input(place, minutes) # <<>>
    /\ log_file' = validate_input(place, minutes)[3]
    /\ backup_interval' = validate_input(place, minutes)[4]
    /\ pc' = "scan"
    /\ caller' = "main"
    /\ active' = active + 1
    /\ err' = "none"
    /\ hist' = [hist EXCEPT !.nruns = @ + 1, !.clean_runs = 0,
                            !.started_at = clock]
    /\ UNCHANGED <<fs, queue, source_files, counters, clock>>

\* lines 22-30
Scan ==
    /\ pc = "scan"
    /\ counters' = fresh_counters
    /\ source_files' = scan_source(fs, source_root)
    /\ pc' = "delete"
    /\ hist' = [hist EXCEPT !.run_start = clock, !.fs0 = fs]
    /\ UNCHANGED <<fs, caller, active, log_file, backup_interval, queue, clock, err>>

\* an exception other than KeyboardInterrupt leaves sync_folders, leaves
\* sync_scheduler.run() (line 161 catches KeyboardInterrupt only) and ends
\* the interpreter
Uncaught(st) ==
    /\ pc' = "crashed"
    /\ active' = 0
    /\ err' = st.err

\* what a step of the run leaves behind
Leave(st, next) ==
    /\ fs' = st.fs
    /\ counters' = CountersOf(st)
    /\ IF st.err = "none"
       THEN pc' = next /\ UNCHANGED <<active, err>>
       ELSE Uncaught(st)

\* lines 33-50
DeletePass(bad) ==
    /\ pc = "delete"
    /\ Leave(walk_remove(RunState, replica_root, bad), "copy")
    /\ UNCHANGED <<caller, log_file, backup_interval, queue, source_files, clock, hist>>

\* lines 53-78; the file operations of the run take dur seconds
CopyPass(bad, dur) ==
    /\ pc = "copy"
    /\ Leave(sync_files(RunState, source_files, 1, bad), "summary")
    /\ clock' = clock + dur
    /\ UNCHANGED <<caller, log_file, backup_interval, queue, source_files, hist>>

\* lines 80-86
Summary ==
    /\ pc = "summary"
    /\ Leave(write_summary(RunState), "enter")
    /\ UNCHANGED <<caller, log_file, backup_interval, queue, source_files, clock, hist>>

\* the delay taken as an absolute time (enterabs in the place of enter)
due_time_abs(now, delay) == delay

\* the time sched.scheduler.enter gives the event: timefunc() + delay
due_time(now, delay) == now + delay

\* sched.scheduler.enter: the event goes into the queue in time order
enter(q, ev) ==
    SelectSeq(q, LAMBDA e : e.time <= ev.time) \o <<ev>>
        \o SelectSeq(q, LAMBDA e : e.time > ev.time)

\* a run that calls sync_folders itself where it should schedule the call
call_again ==
    /\ pc = "enter"
    /\ hist.nruns < MaxRuns
    /\ pc' = "scan"
    /\ active' = active + 1
    /\ hist' = [hist EXCEPT !.nruns = @ + 1]
    /\ UNCHANGED <<fs, caller, log_file, backup_interval, queue, source_files,
                   counters, clock, err>>

\* lines 89-90, and the return of sync_folders into sync_scheduler.run()
\* (line 161 after the first run, the scheduler's loop after the others)
Enter ==
    /\ pc = "enter"
    /\ queue' = enter(queue, [time |-> due_time(clock, backup_interval),
                              log_file |-> log_file,
                              backup_interval |-> backup_interval])
    /\ pc' = "wait"
    /\ active' = active - 1
    /\ hist' = [hist EXCEPT !.run_end = clock, !.clean_runs = @ + 1]
    /\ UNCHANGED <<fs, caller, log_file, backup_interval, source_files, counters,
                   clock, err>>

\* sched.scheduler.run(): the first event is not due, delayfunc(time - now)
Sleep ==
    /\ pc = "wait"
    /\ queue # <<>>
    /\ queue[1].time > clock
    /\ clock' = queue[1].time
    /\ UNCHANGED <<fs, pc, caller, active, log_file, backup_interval, queue,
                   source_files, counters, err, hist>>

\* sched.scheduler.run(): the first event is due; it is popped and its
\* action, sync_folders, is called with the event's arguments
Dispatch ==
    /\ pc = "wait"
    /\ queue # <<>>
    /\ queue[1].time <= clock
    /\ hist.nruns < MaxRuns
    /\ queue' = Tail(queue)
    /\ log_file' = queue[1].log_file
    /\ backup_interval' = queue[1].backup_interval
    /\ pc' = "scan"
    /\ caller' = "sched"
    /\ active' = active + 1
    /\ hist' = [hist EXCEPT !.nruns = @ + 1]
    /\ UNCHANGED <<fs, source_files, counters, clock, err>>

\* an interrupt handler that leaves the queue as it is
cancel_none(q) == q

\* list(map(sync_scheduler.cancel, sync_scheduler.queue)), line 164
cancel_all(q) == SelectSeq(q, LAMBDA e : FALSE)

\* KeyboardInterrupt; the frame of sync_folders, if any, is unwound and its
\* locals are gone.  Inside sync_scheduler.run() (the wait or a scheduled
\* run) lines 162-164 catch it; in the first run, called at line 159 outside
\* the try, nothing does.
Interrupt ==
    /\ InRun \/ pc = "wait"
    /\ err' = "KeyboardInterrupt"
    /\ active' = 0
    /\ IF InRun /\ caller = "main"
       THEN /\ pc' = "crashed"
            /\ queue' = queue
            /\ hist' = [hist EXCEPT !.interrupted = "first run", !.clean_runs = 0]
       ELSE /\ pc' = "prompt"
            /\ queue' = cancel_all(queue)
            /\ hist' = [hist EXCEPT
                          !.interrupted = IF InRun THEN "scheduled run" ELSE "wait",
                          !.clean_runs = 0, !.fs0 = fs, !.run_start = 0,
                          !.run_end = 0]
    /\ source_files' = <<>>
    /\ counters' = ZeroCounters
    /\ UNCHANGED <<fs, caller, log_file, backup_interval, clock>>

\* what somebody else may do to the trees between two runs: rewrite or
\* create a source file, delete a replica file
ExternalChanges == { <<<<"s", "a">>, Y>>, <<<<"r", "a">>, None>> }

\* the trees are changed from outside while the scheduler waits (one change
\* between two runs)
ExternalChange(p, e) ==
    /\ pc = "wait"
    /\ hist.nruns < MaxRuns
    /\ hist.clean_runs > 0
    /\ isdir(fs, dirname(p))
    /\ Kind(fs, p) # "dir"
    /\ fs[p] # e
    /\ fs' = [fs EXCEPT ![p] = e]
    /\ hist' = [hist EXCEPT !.clean_runs = 0]
    /\ UNCHANGED <<pc, caller, active, log_file, backup_interval, queue,
                   source_files, counters, clock, err>>

Next ==
    \/ \E place \in LogPlaces, minutes \in Minutes : Start(place, minutes)
    \/ Scan
    \/ \E bad \in AbsPaths \cup {<<>>} : DeletePass(bad)
    \/ \E bad \in AbsPaths \cup {<<>>}, dur \in Durations : CopyPass(bad, dur)
    \/ Summary
    \/ Enter
    \/ Sleep
    \/ Dispatch
    \/ Interrupt
    \/ \E c \in ExternalChanges : ExternalChange(c[1], c[2])

Spec == Init /\ [][Next]_vars

(***************************************************************************)
(* Properties.                                                             *)
(***************************************************************************)
\* the last call of sync_folders returned and nothing has touched the trees since
Returned == pc = "wait" /\ hist.clean_runs >= 1

\* the last call of sync_folders was left by an exception of its own file
\* operations, with no failure of the environment and no interrupt
Aborted == pc = "crashed" /\ err \notin {"PermissionError", "KeyboardInterrupt"}

LogOutsideTrees == log_file = <<"l">>

\* the relative paths of the regular files of the tree at root
FilesUnder(f, root) == {q \in RelPaths : isfile(f, join(root, q))}

\* every regular file of the source tree has a copy at the same place of the replica
Complete(f) ==
    \A q \in FilesUnder(f, source_root) :
        /\ isfile(f, join(replica_root, q))
        /\ Content(f, join(replica_root, q)) = Content(f, join(source_root, q))

\* the replica paths with nothing at the same place of the source tree
Orphans(f) ==
    {q \in RelPaths : exists(f, join(replica_root, q)) /\ ~exists(f, join(source_root, q))}

\* C1: after a sync run is over, every regular file of the source tree has a
\* file of the same content at the same relative path of the replica tree,
\* whatever the two trees held when the run began, a path that is a file on
\* one side and a directory on the other included.
C1_Completeness == (LogOutsideTrees /\ (Returned \/ Aborted)) => Complete(fs)

\* C2, as claimed: after a run has returned no path of the replica tree lacks
\* a path at the same place of the source tree.
C2_NoOrphans == Returned => Orphans(fs) = {}

\* C2, amended: after a run has returned every path of the replica tree other
\* than the log file itself has a path at the same place of the source tree.
C2_NoOrphansButLog ==
    Returned => Orphans(fs) \subseteq {relpath(log_file, replica_root)}

\* C2: a run returned that had a stale directory and the file in it to
\* remove, and that wrote its log into the replica folder
C2_Witness ==
    /\ Returned
    /\ Orphans(hist.fs0) = {<<"d">>, <<"d", "a">>}
    /\ log_file = <<"r", "l">>
    /\ Orphans(fs) = {<<"l">>}

\* the second of two runs of one sync in succession has returned, with no
\* change from outside since the first began
SecondRunInSuccession == Returned /\ hist.clean_runs >= 2

Unaltered ==
    /\ counters.copied = 0
    /\ counters.removed = 0
    /\ counters.identical = Len(source_files)

\* C3, as claimed: the second of two runs in succession copies nothing,
\* removes nothing and finds every source file identical, wherever the log
\* file is.
C3_Idempotence == SecondRunInSuccession => Unaltered

\* C3, amended: the same, for a log file outside the source and replica trees.
C3_IdempotenceLogOutside == (SecondRunInSuccession /\ LogOutsideTrees) => Unaltered

\* C3: a second run in succession that found two files to compare
C3_Witness ==
    /\ SecondRunInSuccession
    /\ LogOutsideTrees
    /\ counters.identical = 2

\* C4: when a run returns, copied + identical is the number of regular files
\* the source tree held when the run scanned it, in the first run and in
\* every later one.
C4_SourceCounters ==
    Returned =>
        /\ counters.copied + counters.identical = Len(source_files)
        /\ Len(source_files) = Cardinality(FilesUnder(hist.fs0, source_root))

\* C4: a second run returned, after a first one that copied a file
C4_Witness ==
    /\ Returned
    /\ hist.nruns = 2
    /\ caller = "sched"
    /\ counters.identical = 2
    /\ \E i \in 1..Len(Content(fs, log_file)) :
           /\ Content(fs, log_file)[i].msg = "Files copied"
           /\ Content(fs, log_file)[i].n > 0

\* the regular files of the replica tree with no file at the same place of the
\* source tree
ReplicaOnlyFiles(f) == FilesUnder(f, replica_root) \ FilesUnder(f, source_root)

\* C5: when a run returns, removed is the number of regular files the replica
\* tree held before the run with no file at the same relative path of the
\* source tree.
C5_ReplicaCounter ==
    (Returned /\ LogOutsideTrees) =>
        counters.removed = Cardinality(ReplicaOnlyFiles(hist.fs0))

\* C6: a file operation that fails during a run (a PermissionError on a locked
\* file) does not end the run: the run goes on to its remaining actions and
\* its summary.
C6_PartialFailureTolerance == err = "PermissionError" => pc # "crashed"

\* C7: after a failed delete or copy the next periodic run is still scheduled:
\* the run is still going, or it has returned and its successor is pending.
C7_RetryOnNextRun ==
    err = "PermissionError" => (InRun \/ (pc = "wait" /\ Len(queue) = 1))

\* C8: at most one call of sync_folders is in progress, and one is in progress
\* exactly while the program is inside sync_folders.
C8_NoOverlap == active \in {0, 1} /\ (InRun <=> active = 1)

\* C8: a run in progress after a cancellation and a restart with another log file
C8_Witness ==
    /\ InRun
    /\ active = 1
    /\ hist.interrupted = "wait"
    /\ hist.nruns = 2
    /\ log_file = <<"r", "l">>
    /\ isfile(fs, <<"l">>)

\* C9: the first run starts when the operator starts the sync; a run that
\* returns leaves exactly one event, due backup_interval seconds after the
\* moment it was scheduled (the end of the run); the next run starts at that
\* time, interval plus the run's duration after the start of the run before.
C9_Schedule ==
    /\ (pc = "scan" /\ caller = "main") => clock = hist.started_at
    /\ pc = "wait" =>
          /\ Len(queue) = 1
          /\ queue[1].time = hist.run_end + backup_interval
    /\ (pc = "scan" /\ caller = "sched") =>
          /\ queue = <<>>
          /\ clock - hist.run_start = backup_interval + (hist.run_end - hist.run_start)

\* C9: a scheduled run starts, after a run that took time
C9_Witness ==
    /\ pc = "scan"
    /\ caller = "sched"
    /\ hist.run_end > hist.run_start
    /\ clock = hist.run_end + 60

\* C10: after a keyboard interrupt the queue is empty, no call of sync_folders
\* is in progress and the program is back at the prompt.
C10_Cancellation ==
    err = "KeyboardInterrupt" => (pc = "prompt" /\ queue = <<>> /\ active = 0)

\* a is an initial part of b
IsPrefix(a, b) == Len(a) <= Len(b) /\ SubSeq(b, 1, Len(a)) = a

\* C11: no step of the program deletes, truncates or rewrites the log file:
\* what the log held before a step is an initial part of what it holds after
\* it, wherever the log file lies.
C11_AppendOnly ==
    [][log_file' = log_file =>
          IsPrefix(Content(fs, log_file), Content(fs', log_file))]_vars

\* the process was cancelled from outside
Cancelled == err = "KeyboardInterrupt"

\* the interpreter has ended: no statement of the program runs any more, no
\* run follows
Stopped == pc = "crashed"

\* C12: the cycle of runs stops by cancellation from outside only: a process
\* that was not cancelled has not ended, its run in progress is followed by
\* another.
C12_InfiniteService == Stopped => Cancelled

\* the replica tree holds the files of the source tree and nothing else
Mirrors(f) == Complete(f) /\ Orphans(f) = {}

\* C13: with the log file outside both trees, no cancellation and no failure
\* of the environment, the process does not end (after which nothing changes
\* the replica any more) before the replica mirrors the source.
C13_EventualConsistency == (Aborted /\ LogOutsideTrees) => Mirrors(fs)

\* the lines a step appends to the log file
NewLines ==
    SubSeq(Content(fs', log_file), Len(Content(fs, log_file)) + 1,
           Len(Content(fs', log_file)))

\* how many of the lines the step appends report msg for the file at path
Reports(msg, path) ==
    Cardinality({i \in DOMAIN NewLines :
                    NewLines[i].msg = msg /\ NewLines[i].path = path})

\* a file exists at the replica path of source_file and holds the same bytes
SameFileAtReplica(f, source_file) ==
    LET replica_file == join(replica_root, relpath(source_file, source_root))
    IN  isfile(f, replica_file) /\ Content(f, replica_file) = Content(f, source_file)

\* the copy/skip pass is over, with no failure of the environment and no
\* interrupt; the log lies outside the trees
CopyPassOver ==
    /\ pc = "copy"
    /\ pc' \in {"summary", "crashed"}
    /\ err' \notin {"PermissionError", "KeyboardInterrupt"}
    /\ LogOutsideTrees

\* C14: the copy/skip pass gives every file of the source scan exactly one
\* outcome: skipped (reported identical, not copied) when a file of the same
\* content exists at its replica path, copied otherwise.
C14_CopySkipClassification ==
    [][CopyPassOver =>
          \A i \in DOMAIN source_files :
              IF SameFileAtReplica(fs, source_files[i])
              THEN /\ Reports("identical", source_files[i]) = 1
                   /\ Reports("copied", source_files[i]) = 0
                   /\ SameFileAtReplica(fs', source_files[i])
              ELSE /\ Reports("copied", source_files[i]) = 1
                   /\ Reports("identical", source_files[i]) = 0
                   /\ SameFileAtReplica(fs', source_files[i])]_vars

\* the deletion pass is over, with no failure of the environment and no
\* interrupt
DeletePassOver ==
    /\ pc = "delete"
    /\ pc' \in {"copy", "crashed"}
    /\ err' \notin {"PermissionError", "KeyboardInterrupt"}

\* the replica directories with nothing at the same place of the source tree
StaleDirs(f) ==
    {q \in RelPaths : Kind(f, join(replica_root, q)) = "dir"
                      /\ ~exists(f, join(source_root, q))}

\* nothing lies below a path that is not a directory
NoneBelowRemoved(f) ==
    \A p \in AbsPaths : (Len(p) > 1 /\ Kind(f, p) # "none") => Kind(f, dirname(p)) = "dir"

\* C15: the deletion pass removes directories deepest first: every directory
\* it tries to remove is empty at that moment (os.rmdir raises OSError on a
\* directory that is not), no directory goes while something is in it, and
\* when the pass is through no stale directory is left, one emptied by the
\* pass itself included.
C15_DeepestFirst ==
    [][DeletePassOver =>
          /\ err' # "OSError"
          /\ NoneBelowRemoved(fs')
          /\ pc' = "copy" => StaleDirs(fs') = {}]_vars

\* the directory that is to hold the copy of source_file
ReplicaDirOf(source_file) ==
    dirname(join(replica_root, relpath(source_file, source_root)))

\* C16: whenever the copy/skip pass copies a file, the directory that is to
\* hold the copy exists as a directory (shutil.copy2 raises
\* NotADirectoryError where it does not), whatever the replica tree held,
\* a regular file at the place of a needed directory included.
C16_ParentBeforeCopy ==
    [][CopyPassOver =>
          /\ err' # "NotADirectoryError"
          /\ pc' = "summary" =>
                 \A i \in DOMAIN source_files : isdir(fs', ReplicaDirOf(source_files[i]))]_vars

\* the number of lines of the three parts of what a run that returned wrote:
\* one per removal (the files are counted, the directories are those that
\* were stale at the scan), one per copy or skip, three of summary
RemovalLines == counters.removed + Cardinality(StaleDirs(hist.fs0))

CopySkipLines == counters.copied + counters.identical

RunLines == RemovalLines + CopySkipLines + 3

\* the log file is not a path of the replica tree, where the run's own
\* removals and copies would take away what it appended
LogOutsideReplica == SubSeq(log_file, 1, Len(replica_root)) # replica_root

\* C17: when a run has returned, the log file (read where the run's removals
\* and copies do not reach it) ends with the lines of that run: one line for
\* each removal, then one line for each copy or skip, then the three summary
\* lines with the counts of the run, and nothing after them; the first run of
\* the process wrote nothing else.
C17_LogStructure ==
    (Returned /\ LogOutsideReplica) =>
        LET log == Content(fs, log_file)
            base == Len(log) - RunLines
        IN  /\ base >= 0
            /\ hist.nruns = 1 => base = 0
            /\ \A i \in 1..RemovalLines : log[base + i].msg = "removed"
            /\ \A i \in 1..CopySkipLines :
                   log[base + RemovalLines + i].msg \in {"copied", "identical"}
            /\ Cardinality({i \in 1..CopySkipLines :
                               log[base + RemovalLines + i].msg = "copied"})
                   = counters.copied
            /\ SubSeq(log, Len(log) - 2, Len(log))
                   = << SummaryLine("Files copied", counters.copied),
                        SummaryLine("Files removed", counters.removed),
                        SummaryLine("Files unaltered", counters.identical) >>

\* C17: the first run of a process returned; it removed a file and a stale
\* directory and copied a file, and the log file holds its six lines
C17_Witness ==
    /\ Returned
    /\ hist.nruns = 1
    /\ LogOutsideTrees
    /\ counters.removed = 1
    /\ Cardinality(StaleDirs(hist.fs0)) = 1
    /\ counters.copied = 1
    /\ Len(Content(fs, log_file)) = 6

\* C18: every line of the log file, the three summary lines included, begins
\* with the time it was written at.
C18_LineFormat ==
    \A i \in DOMAIN Content(fs, log_file) : Content(fs, log_file)[i].stamped

\* the paths below root
Under(root) ==
    {p \in AbsPaths : Len(p) > Len(root) /\ SubSeq(p, 1, Len(root)) = root}

\* the step leaves the paths of S as they are
Untouched(S) == \A p \in S : fs'[p] = fs[p]

C20_SinglePendingEvent ==
    [][/\ Len(queue') <= 1
       /\ \A i \in DOMAIN queue' :
              /\ queue'[i].log_file = log_file'
              /\ queue'[i].backup_interval = backup_interval'
       /\ ((InRun)' /\ caller' = "sched") => queue' = <<>>
       /\ pc' = "prompt" => queue' = <<>>
       /\ (pc = "enter" /\ pc' = "wait") =>
              /\ queue = <<>>
              /\ Len(queue') = 1
              /\ queue'[1].time = clock + backup_interval]_vars

\* C20: the process was cancelled, started again, and the run that followed
\* has returned and left its successor in the queue
C20_Witness ==
    /\ Returned
    /\ hist.interrupted \in {"wait", "scheduled run"}
    /\ hist.nruns >= 2
    /\ Len(queue) = 1

====
